---------------------------- MODULE Spec2Model ----------------------------
(***************************************************************************)
(* Herding simulation: the dogs' command / autonomous state machine and    *)
(* its wiring to the flock through the Experience component, and the       *)
(* flock's spatial grid and per-sheep update loop.                         *)
(*                                                                         *)
(* Numbers are fixed point.  One world unit of length is PosScale model    *)
(* units, one world unit per second of speed is VelScale model units and   *)
(* one second is TimeScale model units, so that a displacement             *)
(* velocity * delta is (v * dl) \div DispDiv model units of length.        *)
(* Vectors are pairs <<x, z>>; the height coordinate is left out (flat     *)
(* ground, distances are taken in the horizontal plane).  null is <<>>.    *)
(***************************************************************************)
EXTENDS Integers, Sequences, FiniteSets, TLC

\* ------------------------------------------------------------------ units
\* lengths in 1/50 world unit, speeds in 1/20 unit per second, time in 1/200 s
PosScale == 5 * 10
VelScale == 2 * 10
TimeScale == 2 * 100
DispDiv == (VelScale * TimeScale) \div PosScale

Null == <<>>
NoDist == 0 - 1

\* ------------------------------------------------------------ vector math
Abs(a) == IF a < 0 THEN -a ELSE a
Min(a, b) == IF a < b THEN a ELSE b
Max(a, b) == IF a > b THEN a ELSE b

\* division rounding toward zero, the fixed-point image of a float product
Div(a, b) == IF a >= 0 THEN a \div b ELSE -((-a) \div b)

RECURSIVE SqrtSearch(_, _, _)
SqrtSearch(n, lo, hi) ==
    IF lo >= hi THEN lo
    ELSE LET mid == (lo + hi + 1) \div 2
         IN  IF mid * mid <= n THEN SqrtSearch(n, mid, hi)
             ELSE SqrtSearch(n, lo, mid - 1)

ISqrt(n) == SqrtSearch(n, 0, 46340)

Add(a, b) == <<a[1] + b[1], a[2] + b[2]>>
Sub(a, b) == <<a[1] - b[1], a[2] - b[2]>>
LengthSq(v) == v[1] * v[1] + v[2] * v[2]
Length(v) == ISqrt(LengthSq(v))
DistSq(a, b) == LengthSq(Sub(a, b))
Dist(a, b) == Length(Sub(a, b))
MulDiv(v, num, den) == <<Div(v[1] * num, den), Div(v[2] * num, den)>>

\* Vector3.setLength / normalize().multiplyScalar(l): the zero vector stays zero
SetLength(v, l) == IF Length(v) = 0 THEN <<0, 0>> ELSE MulDiv(v, l, Length(v))

\* Vector3.clampLength(0, max)
ClampLength(v, max) == IF LengthSq(v) <= max * max THEN v ELSE SetLength(v, max)

\* utils/math clamp
clamp(value, min, max) == Max(min, Min(max, value))

\* -------------------------------------------------------- program constants
NumDogs == 3
Dogs == 0 .. NumDogs - 1

\* Dog.jsx
TARGET_GOAL == <<0, 150 * PosScale>>
PACK_SEPARATION == 55 * PosScale
PACK_SEPARATION_FORCE == 22 * VelScale
BOUNDS == 320 * PosScale
ReachRadius == 5 * PosScale
ArriveRadius == 10 * PosScale
ProgressMin == PosScale \div 5
CommandTimeout == 7 * TimeScale
StuckTimeout == (3 * TimeScale) \div 2
PatrolDelay == 5 * TimeScale
DogMaxSpeed == 32 * VelScale
DogMaxForce == 50 * VelScale

\* Herd.jsx, utils/terrain.js
SEPARATION_DISTANCE == (9 * PosScale) \div 2
ALIGNMENT_DISTANCE == 12 * PosScale
COHESION_DISTANCE == 12 * PosScale
BASE_MAX_SPEED == 7 * VelScale
MAX_FORCE == VelScale \div 5
BOUNDS_X == 350 * PosScale
BOUNDS_Z == 700 * PosScale
CELL_SIZE == 20 * PosScale
FARM_CENTER == <<-200 * PosScale, -100 * PosScale>>
FARM_HALF == 70 * PosScale
GATE_HALF == 14 * PosScale
FARM_CORNER_OPEN == 8 * PosScale
TARGET_CENTER == <<150 * PosScale, 150 * PosScale>>
FLEE_RADIUS == 35 * PosScale
GrasslandCap == 120

\* confidence 1.0 is ConfScale: a recovery of 0.1 per second is one model unit
\* of confidence per model unit of time, a decay of 1.5 per second is 15
ConfScale == 10 * TimeScale

\* The three wedges of DOG_TERRITORY_ANGLES, as tests on rel = <<x, z>> with
\* ang = atan2(rel.x, rel.z): the middle wedge [-pi/3, pi/3] is cos(ang) >= 1/2.
InMiddleWedge(rel) == rel[2] >= 0 /\ 3 * rel[2] * rel[2] >= rel[1] * rel[1]

InSector(id, rel) ==
    CASE id % NumDogs = 0 -> rel[1] < 0 /\ ~InMiddleWedge(rel)
      [] id % NumDogs = 1 -> InMiddleWedge(rel)
      [] OTHER -> rel[1] >= 0 /\ ~InMiddleWedge(rel)

\* <<sin, cos>> * 1000 of the patrol angle
\*   (sector.min + sector.max) / 2 + sin(time * 0.3 + id) * (sector.max - sector.min) * 0.4
\* tabulated per dog for the whole seconds 0 .. 16 of the clock
PatrolTable ==
    << << <<-866, -500>>, <<-962, -273>>, <<-999, -51>>, <<-991, 132>>, <<-967, 254>>,
          <<-952, 307>>, <<-958, 288>>, <<-980, 198>>, <<-999, 42>>, <<-986, -165>>,
          <<-919, -394>>, <<-793, -610>>, <<-626, -780>>, <<-454, -891>>, <<-312, -950>>,
          <<-226, -974>>, <<-211, -977>> >>,
       << <<648, 762>>, <<722, 692>>, <<743, 669>>, <<712, 702>>, <<627, 779>>,
          <<481, 877>>, <<277, 961>>, <<35, 999>>, <<-212, 977>>, <<-429, 903>>,
          <<-592, 806>>, <<-694, 720>>, <<-740, 673>>, <<-733, 680>>, <<-674, 738>>,
          <<-557, 830>>, <<-379, 925>> >>,
       << <<282, -960>>, <<410, -912>>, <<577, -817>>, <<749, -662>>, <<889, -457>>,
          <<974, -228>>, <<1000, -11>>, <<987, 161>>, <<963, 270>>, <<951, 309>>,
          <<961, 276>>, <<985, 173>>, <<1000, 5>>, <<978, -209>>, <<899, -439>>,
          <<762, -647>>, <<592, -806>> >> >>

PatrolDir(id, t) == PatrolTable[id + 1][Min(t \div TimeScale, 16) + 1]

\* ------------------------------------------------------------------ bounds
MaxFrames == 18
NumSheep == 4
MaxHerdTicks == 3
MaxGrazeTicks == 3

\* frame periods: SlowDelta is 0.5 s, FastDelta is 1/200 s (a 200 Hz display)
SlowDelta == TimeScale \div 2
FastDelta == TimeScale \div 200
FastFrames == 320

\* LongDelta is 7 s: the frame after the page was in the background;
\* QuickDelta is 0.1 s
LongDelta == 7 * TimeScale
QuickDelta == TimeScale \div 10

\* inputs: the frames after which a click can come, the points it can hit, and
\* the flock summaries the herd reports
ClickFrames == {0, 1, 4}
TurnFrames == {2, 4}
FastClickFrames == {0}

\* a point within 5 units of dog 0, a point 60 units from dog 2, and a point
\* beyond the bounds, more than 7 s of running away from every dog
ClickPoints ==
    { <<-318 * PosScale, -322 * PosScale>>,
      <<-200 * PosScale, -290 * PosScale>>,
      <<400 * PosScale, -300 * PosScale>> }

Flocks ==
    { [center |-> <<-200 * PosScale, -100 * PosScale>>,
       strays |-> << <<-262 * PosScale, -165 * PosScale>>,
                     <<-268 * PosScale, -150 * PosScale>>,
                     <<-150 * PosScale, -168 * PosScale>> >>],
      [center |-> <<30 * PosScale, 140 * PosScale>>, strays |-> << >>] }

VARIABLES
    pc,                  \* 0: between frames; 1: Herd's callback is next; 2 + d: Dog d's
    frameNo,             \* frames begun so far
    time,                \* state.clock.getElapsedTime()
    delta,               \* the running frame's delta
    clicks,              \* clicks handled so far
    lastClick,           \* frame after which the last click came
    flock,               \* the flock summary the herd computes (an input here)
    dogs, dogsNext,              \* Experience state `dogs`: rendered / queued
    herdCenter, herdCenterNext,  \* Experience state `herdCenter`
    strayTarget, strayTargetNext,\* Experience state `strayTarget`
    dogCommands, dogCommandsNext,\* Experience state `dogCommands`; <<x, z, id>> or null
    dogState, dogStateNext,      \* Dog state `dogState`: rendered / queued
    commandTarget,       \* Dog state `commandTarget` as last set
    targetPosition,      \* Dog refs
    commandTimer, lastCommandDistance, stuckTimer, timeSinceCommand,
    position, velocity,
    dogsTick, dogsNextTick,      \* frame in which each entry of `dogs` was emitted
    herdTick, herdNextTick,      \* frame in which herdCenter / strayTarget were emitted
    sheepReadTick,       \* dogsTick of the dog positions the Herd callback last read
    dogReadTick,         \* herdTick of the summary each Dog callback last read
    nearCommand,         \* the last command's target was within 5 units at delivery
    windowStart,         \* distance to the target when stuckTimer was last 0
    verdict,             \* reachedTarget / commandExpired / commandStuck at the last abandon
    hpc,                 \* Herd callback: "idle" between ticks, "loop" inside the main loop
    loopIndex,            \* the loop index i
    herdTicks,           \* ticks of the flock begun so far
    herdDelta,           \* the running tick's delta
    flockData,           \* per sheep: position, velocity (the objects neighbours refer to)
    posY,                \* per sheep: position.y, the height it stands at
    grid,                \* the spatial grid: cell key -> sequence of sheep indices
    sumPos, activeSheep, topStrays,  \* the tick's accumulators
    tickStart,           \* flockData as it was when the grid was last rebuilt
    prevCell,            \* each sheep's cell at the rebuild before the last
    neighborReads,       \* per sheep: what it read of each neighbour in this tick
    state,               \* per sheep: sheep.state (confidence, feeding, feedingTimer)
    inGrasslandCount,    \* the tick's count of sheep feeding on the pasture
    nonFinite,           \* where a NaN sits: sheep (position and velocity), sum, center, strays
    stepLog,             \* per sheep: what its last pass of the loop read and decided
    probe                \* the last pair of terrain points sampled, with their heights

dogVars ==
    << pc, frameNo, time, delta, clicks, lastClick, flock, dogs, dogsNext, herdCenter,
       herdCenterNext, strayTarget, strayTargetNext, dogCommands, dogCommandsNext,
       dogState, dogStateNext, commandTarget, targetPosition, commandTimer,
       lastCommandDistance, stuckTimer, timeSinceCommand, position, velocity,
       dogsTick, dogsNextTick, herdTick, herdNextTick, sheepReadTick, dogReadTick,
       nearCommand, windowStart, verdict >>

herdVars ==
    << hpc, loopIndex, herdTicks, herdDelta, flockData, posY, grid, sumPos, activeSheep,
       topStrays, tickStart, prevCell, neighborReads, state, inGrasslandCount,
       nonFinite, stepLog >>

terrainVars == << probe >>

vars == << dogVars, herdVars, terrainVars >>

\* ------------------------------------------------------- Experience, Dog: Init
InitialDogs ==
    [d \in Dogs |->
        CASE d = 0 -> <<-320 * PosScale, -320 * PosScale>>
          [] d = 1 -> <<-300 * PosScale, -260 * PosScale>>
          [] OTHER -> <<-260 * PosScale, -300 * PosScale>>]

\* the dogs as the program starts, standing at one of the given placements
DogsStanding(places) ==
    /\ pc = 0 /\ frameNo = 0 /\ time = 0 /\ delta = 0 /\ clicks = 0 /\ lastClick = NoDist
    /\ flock \in Flocks
    /\ dogs \in places /\ dogsNext = dogs
    /\ herdCenter = <<0, -100 * PosScale>> /\ herdCenterNext = herdCenter
    /\ strayTarget = Null /\ strayTargetNext = Null
    /\ dogCommands = [d \in Dogs |-> Null] /\ dogCommandsNext = dogCommands
    /\ dogState = [d \in Dogs |-> "IDLE"] /\ dogStateNext = dogState
    /\ commandTarget = [d \in Dogs |-> Null]
    /\ targetPosition = [d \in Dogs |-> Null]
    /\ commandTimer = [d \in Dogs |-> 0]
    /\ lastCommandDistance = [d \in Dogs |-> NoDist]
    /\ stuckTimer = [d \in Dogs |-> 0]
    /\ timeSinceCommand = [d \in Dogs |-> 0]
    /\ position = dogs
    /\ velocity = [d \in Dogs |-> <<0, 0>>]
    /\ dogsTick = [d \in Dogs |-> 0] /\ dogsNextTick = dogsTick
    /\ herdTick = 0 /\ herdNextTick = 0
    /\ sheepReadTick = [d \in Dogs |-> 0]
    /\ dogReadTick = [d \in Dogs |-> 0]
    /\ nearCommand = [d \in Dogs |-> FALSE]
    /\ windowStart = [d \in Dogs |-> NoDist]
    /\ verdict = [d \in Dogs |-> Null]

InitDogs == DogsStanding({InitialDogs})

\* ------------------------------------------------- Experience: click, render
\* something is queued that the last render has not shown
Pending ==
    \/ dogsNext # dogs \/ dogsNextTick # dogsTick
    \/ herdCenterNext # herdCenter \/ strayTargetNext # strayTarget
    \/ herdNextTick # herdTick
    \/ dogCommandsNext # dogCommands
    \/ dogStateNext # dogState

\* handleTerrainClick: the first dog at the least distance from the point
closestIdx(point) ==
    CHOOSE i \in Dogs :
        /\ \A j \in Dogs : DistSq(dogs[i], point) <= DistSq(dogs[j], point)
        /\ \A j \in Dogs : j < i => DistSq(dogs[j], point) > DistSq(dogs[i], point)

newCommands(point) ==
    [d \in Dogs |-> IF d = closestIdx(point) THEN <<point[1], point[2], clicks + 1>> ELSE Null]

\* The handler runs between a finished render and the next frame, at most once
\* between two frames.
handleTerrainClick(point, clickFrames) ==
    /\ pc = 0
    /\ ~Pending
    /\ frameNo \in clickFrames
    /\ lastClick # frameNo
    /\ dogCommandsNext' = newCommands(point)
    /\ clicks' = clicks + 1
    /\ lastClick' = frameNo
    /\ UNCHANGED << pc, frameNo, time, delta, flock, dogs, dogsNext, herdCenter,
                    herdCenterNext, strayTarget, strayTargetNext, dogCommands, dogState,
                    dogStateNext, commandTarget, targetPosition, commandTimer,
                    lastCommandDistance, stuckTimer, timeSinceCommand, position, velocity,
                    dogsTick, dogsNextTick, herdTick, herdNextTick, sheepReadTick,
                    dogReadTick, nearCommand, windowStart, verdict >>
    /\ UNCHANGED << herdVars, terrainVars >>

\* an effect without dependencies: it runs after every render
commandChangedAlways(d) == TRUE

\* Dog useEffect([props.command, id]): runs when the command prop changed
commandChanged(d) == dogCommandsNext[d] # dogCommands[d]

\* a variant that leaves the commanded point unclamped
newTargetUnclamped(command) == << command[1], command[2] >>

newTarget(command) ==
    << Max(-BOUNDS, Min(BOUNDS, command[1])), Max(-BOUNDS, Min(BOUNDS, command[2])) >>

\* the dog's refs and queued state as they are, and after a command is taken
KeepCommand(d) ==
    [commandTarget |-> commandTarget[d],
     targetPosition |-> targetPosition[d],
     dogState |-> dogStateNext[d],
     commandTimer |-> commandTimer[d],
     lastCommandDistance |-> lastCommandDistance[d],
     stuckTimer |-> stuckTimer[d]]

TakeCommand(d) ==
    [commandTarget |-> newTarget(dogCommandsNext[d]),
     targetPosition |-> newTarget(dogCommandsNext[d]),
     dogState |-> "MOVING",
     commandTimer |-> 0,
     lastCommandDistance |-> NoDist,
     stuckTimer |-> 0]

\* a variant in which a command that became null cancels the one in flight
CommandEffectCancelling(d) ==
    IF ~commandChanged(d) THEN KeepCommand(d)
    ELSE IF dogCommandsNext[d] # Null THEN TakeCommand(d)
    ELSE [KeepCommand(d) EXCEPT !.commandTarget = Null, !.targetPosition = Null,
                                !.dogState = "AUTONOMOUS"]

\* what the effect leaves in the dog's refs and queued state
CommandEffect(d) ==
    IF commandChanged(d) /\ dogCommandsNext[d] # Null THEN TakeCommand(d)
    ELSE KeepCommand(d)

\* a variant in which a state setter is rendered as soon as it is called
RenderAtOnce == Pending

\* a frame callback runs to its end before React renders what it queued
RenderEnabled == pc = 0 /\ Pending

\* One React render and commit of Experience and its children, then the effects.
Render ==
    /\ RenderEnabled
    /\ dogs' = dogsNext /\ dogsTick' = dogsNextTick
    /\ herdCenter' = herdCenterNext /\ strayTarget' = strayTargetNext
    /\ herdTick' = herdNextTick
    /\ dogCommands' = dogCommandsNext
    /\ dogState' = dogStateNext
    /\ dogStateNext' = [d \in Dogs |-> CommandEffect(d).dogState]
    /\ commandTarget' = [d \in Dogs |-> CommandEffect(d).commandTarget]
    /\ targetPosition' = [d \in Dogs |-> CommandEffect(d).targetPosition]
    /\ commandTimer' = [d \in Dogs |-> CommandEffect(d).commandTimer]
    /\ lastCommandDistance' = [d \in Dogs |-> CommandEffect(d).lastCommandDistance]
    /\ stuckTimer' = [d \in Dogs |-> CommandEffect(d).stuckTimer]
    /\ nearCommand' = [d \in Dogs |->
            IF commandChanged(d) /\ dogCommandsNext[d] # Null
            THEN DistSq(position[d], CommandEffect(d).targetPosition) < ReachRadius * ReachRadius
            ELSE nearCommand[d]]
    /\ windowStart' = [d \in Dogs |->
            IF commandChanged(d) /\ dogCommandsNext[d] # Null THEN NoDist ELSE windowStart[d]]
    /\ verdict' = [d \in Dogs |->
            IF commandChanged(d) /\ dogCommandsNext[d] # Null THEN Null ELSE verdict[d]]
    /\ UNCHANGED << pc, frameNo, time, delta, clicks, lastClick, flock, dogsNext,
                    herdCenterNext, strayTargetNext, dogCommandsNext, timeSinceCommand,
                    position, velocity, dogsNextTick, herdNextTick, sheepReadTick,
                    dogReadTick >>
    /\ UNCHANGED << herdVars, terrainVars >>

\* --------------------------------------------------------------- frame loop
\* only the setDogState of a command effect is still to be rendered
EffectPending ==
    /\ dogsNext = dogs /\ dogsNextTick = dogsTick
    /\ herdCenterNext = herdCenter /\ strayTargetNext = strayTarget
    /\ herdNextTick = herdTick
    /\ dogCommandsNext = dogCommands

\* The render loop starts a frame: every useFrame callback runs once, in the
\* order of subscription (Herd, then Dog 0, 1, 2), with the same delta.  What
\* the callbacks and a click queued is rendered before the next frame; the
\* render that a command effect queues may come after it.
BeginFrame(dl, maxFrames) ==
    /\ pc = 0
    /\ frameNo < maxFrames
    /\ Pending => EffectPending
    /\ pc' = 1
    /\ frameNo' = frameNo + 1
    /\ time' = time + dl
    /\ delta' = dl
    /\ UNCHANGED << clicks, lastClick, flock, dogs, dogsNext, herdCenter, herdCenterNext,
                    strayTarget, strayTargetNext, dogCommands, dogCommandsNext, dogState,
                    dogStateNext, commandTarget, targetPosition, commandTimer,
                    lastCommandDistance, stuckTimer, timeSinceCommand, position, velocity,
                    dogsTick, dogsNextTick, herdTick, herdNextTick, sheepReadTick,
                    dogReadTick, nearCommand, windowStart, verdict >>
    /\ UNCHANGED << herdVars, terrainVars >>

\* Between two frames the sheep have moved: the Herd callback of the next frame
\* reports another centroid and another stray list.
FlockTurns(turnFrames) ==
    /\ pc = 0
    /\ ~Pending
    /\ frameNo \in turnFrames
    /\ flock' \in Flocks \ {flock}
    /\ UNCHANGED << pc, frameNo, time, delta, clicks, lastClick, dogs, dogsNext, herdCenter,
                    herdCenterNext, strayTarget, strayTargetNext, dogCommands,
                    dogCommandsNext, dogState, dogStateNext, commandTarget, targetPosition,
                    commandTimer, lastCommandDistance, stuckTimer, timeSinceCommand,
                    position, velocity, dogsTick, dogsNextTick, herdTick, herdNextTick,
                    sheepReadTick, dogReadTick, nearCommand, windowStart, verdict >>
    /\ UNCHANGED << herdVars, terrainVars >>

\* Herd useFrame as the dogs see it: it reads the `dogs` prop of the last render
\* and reports the centroid and the stray list through the parent's setters.
HerdFrame ==
    /\ pc = 1
    /\ sheepReadTick' = dogsTick
    /\ herdCenterNext' = flock.center
    /\ strayTargetNext' = flock.strays
    /\ herdNextTick' = frameNo
    /\ pc' = 2
    /\ UNCHANGED << frameNo, time, delta, clicks, lastClick, flock, dogs, dogsNext, herdCenter,
                    strayTarget, dogCommands, dogCommandsNext, dogState, dogStateNext,
                    commandTarget, targetPosition, commandTimer, lastCommandDistance,
                    stuckTimer, timeSinceCommand, position, velocity, dogsTick,
                    dogsNextTick, herdTick, dogReadTick, nearCommand, windowStart,
                    verdict >>
    /\ UNCHANGED << herdVars, terrainVars >>

\* ------------------------------------------------------ Dog useFrame: decision
\* `dogState` is the value the callback closed over at the last render
Moving(d) == dogState[d] = "MOVING" /\ targetPosition[d] # Null

dist(d) == Dist(position[d], targetPosition[d])

\* stuckTimer after the progress test of this tick
stuckTimerAfter(d) ==
    IF lastCommandDistance[d] = NoDist THEN stuckTimer[d]
    ELSE IF lastCommandDistance[d] - dist(d) < ProgressMin THEN stuckTimer[d] + delta
    ELSE 0

reachedTarget(d) == DistSq(position[d], targetPosition[d]) < ReachRadius * ReachRadius

\* a variant with the command's time limit doubled
commandExpiredLate(d) == commandTimer[d] + delta > 2 * CommandTimeout

commandExpired(d) == commandTimer[d] + delta > CommandTimeout
commandStuck(d) == stuckTimerAfter(d) > StuckTimeout

abandons(d) == reachedTarget(d) \/ commandExpired(d) \/ commandStuck(d)

MovingBranch(d) ==
    IF abandons(d)
    THEN [targetPosition |-> Null,
          commandTarget |-> Null,
          dogState |-> "AUTONOMOUS",
          timeSinceCommand |-> 0,
          commandTimer |-> 0,
          lastCommandDistance |-> NoDist,
          stuckTimer |-> 0,
          velocity |-> MulDiv(velocity[d], 65, 100)]
    ELSE [targetPosition |-> targetPosition[d],
          commandTarget |-> commandTarget[d],
          dogState |-> dogStateNext[d],
          timeSinceCommand |-> 0,
          commandTimer |-> commandTimer[d] + delta,
          lastCommandDistance |-> dist(d),
          stuckTimer |-> stuckTimerAfter(d),
          velocity |-> velocity[d]]

isHerdGrazing == DistSq(herdCenter, TARGET_GOAL) < (50 * PosScale) * (50 * PosScale)

balancePoint(d) ==
    LET dirToGoal == Sub(TARGET_GOAL, herdCenter)
        maintainDistance == IF isHerdGrazing THEN 80 * PosScale ELSE 55 * PosScale
        lateral == SetLength(<<-dirToGoal[2], dirToGoal[1]>>, (d - 1) * 15 * PosScale)
    IN  Add(Sub(herdCenter, SetLength(dirToGoal, maintainDistance)), lateral)

\* without the wedge filter: every reported stray
sectorStraysAll(d) == {k \in 1 .. Len(strayTarget) : TRUE}

\* strays of the dog's own sector, by index in strayTargets
sectorStrays(d) ==
    {k \in 1 .. Len(strayTarget) : InSector(d, Sub(strayTarget[k], herdCenter))}

\* the first of the sector's strays at the least distance from the dog, or null
chosenStray(d) ==
    IF sectorStrays(d) = {} THEN Null
    ELSE strayTarget[CHOOSE k \in sectorStrays(d) :
            \A j \in sectorStrays(d) :
                /\ DistSq(position[d], strayTarget[k]) <= DistSq(position[d], strayTarget[j])
                /\ j < k => DistSq(position[d], strayTarget[j]) > DistSq(position[d], strayTarget[k])]

patrolPoint(d) ==
    LET patrolRadius == IF isHerdGrazing THEN 10 * PosScale ELSE 35 * PosScale
    IN  Add(balancePoint(d), MulDiv(PatrolDir(d, time), patrolRadius, 1000))

\* the target the autonomous logic leaves in targetPosition
autonomousTarget(d) ==
    IF chosenStray(d) # Null THEN chosenStray(d)
    ELSE IF timeSinceCommand[d] + delta > PatrolDelay
         THEN IF DistSq(position[d], patrolPoint(d)) > ReachRadius * ReachRadius
              THEN patrolPoint(d)
              ELSE Null
         ELSE targetPosition[d]

AutonomousBranch(d) ==
    [targetPosition |-> autonomousTarget(d),
     commandTarget |-> commandTarget[d],
     dogState |-> dogStateNext[d],
     timeSinceCommand |-> timeSinceCommand[d] + delta,
     commandTimer |-> commandTimer[d],
     lastCommandDistance |-> lastCommandDistance[d],
     stuckTimer |-> stuckTimer[d],
     velocity |-> velocity[d]]

Decision(d) == IF Moving(d) THEN MovingBranch(d) ELSE AutonomousBranch(d)

\* ------------------------------------------------------- Dog useFrame: physics
desiredVelocity(d, target) ==
    IF target = Null THEN <<0, 0>>
    ELSE LET steer == Sub(target, position[d])
             maxSpeed == IF LengthSq(steer) < ArriveRadius * ArriveRadius
                         THEN (DogMaxSpeed * Length(steer)) \div ArriveRadius
                         ELSE DogMaxSpeed
         IN  SetLength(steer, maxSpeed)

\* pack mates (from the packPositions prop) inside the separation radius
packNear(d) ==
    {i \in Dogs : /\ i # d
                  /\ DistSq(position[d], dogs[i]) > 0
                  /\ DistSq(position[d], dogs[i]) < PACK_SEPARATION * PACK_SEPARATION}

RECURSIVE awaySum(_, _)
awaySum(d, S) ==
    IF S = {} THEN <<0, 0>>
    ELSE LET i == CHOOSE x \in S : TRUE
         IN  Add(SetLength(Sub(position[d], dogs[i]), 1000), awaySum(d, S \ {i}))

separationForce(d) ==
    IF packNear(d) = {} THEN <<0, 0>>
    ELSE SetLength(MulDiv(awaySum(d, packNear(d)), 1, Cardinality(packNear(d))),
                   PACK_SEPARATION_FORCE)

steerForce(d, target, vel) ==
    ClampLength(Add(Sub(desiredVelocity(d, target), vel), separationForce(d)),
                (DogMaxForce * delta) \div TimeScale)

velocityAfter(d, target, vel) == Add(vel, steerForce(d, target, vel))

positionAfter(d, target, vel) ==
    Add(position[d], MulDiv(velocityAfter(d, target, vel), delta, DispDiv))

\* The whole callback of dog d: decision, physics, onMove.
DogFrame(d) ==
    /\ pc = 2 + d
    /\ LET dec == Decision(d)
       IN  /\ targetPosition' = [targetPosition EXCEPT ![d] = dec.targetPosition]
           /\ commandTarget' = [commandTarget EXCEPT ![d] = dec.commandTarget]
           /\ dogStateNext' = [dogStateNext EXCEPT ![d] = dec.dogState]
           /\ timeSinceCommand' = [timeSinceCommand EXCEPT ![d] = dec.timeSinceCommand]
           /\ commandTimer' = [commandTimer EXCEPT ![d] = dec.commandTimer]
           /\ lastCommandDistance' = [lastCommandDistance EXCEPT ![d] = dec.lastCommandDistance]
           /\ stuckTimer' = [stuckTimer EXCEPT ![d] = dec.stuckTimer]
           /\ velocity' = [velocity EXCEPT ![d] = velocityAfter(d, dec.targetPosition, dec.velocity)]
           /\ position' = [position EXCEPT ![d] = positionAfter(d, dec.targetPosition, dec.velocity)]
    /\ dogsNext' = [dogsNext EXCEPT ![d] = position'[d]]
    /\ dogsNextTick' = [dogsNextTick EXCEPT ![d] = frameNo]
    /\ dogReadTick' = [dogReadTick EXCEPT ![d] = IF Moving(d) THEN @ ELSE herdTick]
    /\ windowStart' = [windowStart EXCEPT ![d] =
            IF Moving(d) /\ ~abandons(d) /\ stuckTimerAfter(d) = 0 THEN dist(d) ELSE @]
    /\ verdict' = [verdict EXCEPT ![d] =
            IF Moving(d) /\ abandons(d)
            THEN [reached |-> reachedTarget(d), expired |-> commandExpired(d),
                  stuck |-> commandStuck(d), dist |-> dist(d), from |-> windowStart[d]]
            ELSE @]
    /\ pc' = IF d = NumDogs - 1 THEN 0 ELSE pc + 1
    /\ UNCHANGED << frameNo, time, delta, clicks, lastClick, flock, dogs, herdCenter,
                    herdCenterNext, strayTarget, strayTargetNext, dogCommands,
                    dogCommandsNext, dogState, dogsTick, herdTick, herdNextTick,
                    sheepReadTick, nearCommand >>
    /\ UNCHANGED << herdVars, terrainVars >>

\* ------------------------------------------------------- utils/terrain.js
\* Heights are lengths (PosScale model units per world unit), unit vectors and
\* blend factors are in 1/10000 and 1/1000.
FARM_HEIGHT == 5 * PosScale
GRASS_RADIUS_EST == 80 * PosScale
PATH_START == <<FARM_CENTER[1], FARM_CENTER[2] + FARM_HALF>>
PATH_DIRECTION_TO_GRASS == SetLength(Sub(TARGET_CENTER, PATH_START), 10000)
PATH_GRASS_BUFFER == (GRASS_RADIUS_EST * 3) \div 4
PATH_END == Sub(TARGET_CENTER, MulDiv(PATH_DIRECTION_TO_GRASS, PATH_GRASS_BUFFER, 10000))
PATH_VECTOR == Sub(PATH_END, PATH_START)
PATH_LENGTH == Length(PATH_VECTOR)
PATH_DIRECTION == SetLength(PATH_VECTOR, 10000)
PATH_WIDTH == 20 * PosScale
PATH_WIDTH_BIOME == 12 * PosScale

\* The noise library is outside the program.  A sample of the noise field near
\* a point is a record: base, the height of lines 61-68 (ridged fbm plus
\* roughness); radius, noise(angle * 3, 0) * 24; undulation, noise * 5;
\* texture, noise * 0.3; fork, noise * 30; moisture, noise * 1000.  Noise is
\* continuous, so two points a small step apart share the sample.
FlatNoise(b) ==
    [base |-> b, radius |-> 0, undulation |-> 0, texture |-> 0, fork |-> 0, moisture |-> 0]

\* smoothstep(x, min, max) of utils/math, in 1/1000
smoothstep(x, min, max) ==
    LET t == clamp(Div((x - min) * 1000, max - min), 0, 1000)
    IN  Div(Div(t * t, 1000) * (3000 - 2 * t), 1000)

\* _pathToPoint.dot(PATH_DIRECTION)
pathDot(p) ==
    LET rel == Sub(p, PATH_START)
    IN  Div(rel[1] * PATH_DIRECTION[1] + rel[2] * PATH_DIRECTION[2], 10000)

distanceToMainPath(p) ==
    LET projDist == clamp(pathDot(p), 0, PATH_LENGTH)
        pathClosest == Add(PATH_START, MulDiv(PATH_DIRECTION, projDist, 10000))
    IN  Dist(p, pathClosest)

getGrassRadiusAt(p, nf) == clamp(GRASS_RADIUS_EST + nf.radius, 55 * PosScale, 110 * PosScale)

\* Math.abs(x + z - 50 + forkPathNoise) / Math.sqrt(2)
distToForkPath(p, nf) == Div(Abs(p[1] + p[2] - 50 * PosScale + nf.fork) * 7071, 10000)

inForkQuadrant(p) == p[1] < 20 * PosScale /\ p[2] > -20 * PosScale

\* y * t + target * (1 - t), t in 1/1000
blend(y, target, t) == Div(y * t + target * (1000 - t), 1000)

\* the farm flatten: flat inside the square, blended by the distance to the
\* farm center out to 1.5 * FARM_HALF
farmFlatten(p, y) ==
    LET dxFarm == Abs(p[1] - FARM_CENTER[1])
        dzFarm == Abs(p[2] - FARM_CENTER[2])
        farmPlaneRadius == (FARM_HALF * 3) \div 2
        distToFarmCenter == Length(<<dxFarm, dzFarm>>)
        blendFactor == clamp(Div((distToFarmCenter - FARM_HALF) * 1000,
                                 farmPlaneRadius - FARM_HALF), 0, 1000)
    IN  IF dxFarm < FARM_HALF /\ dzFarm < FARM_HALF THEN FARM_HEIGHT
        ELSE IF distToFarmCenter < farmPlaneRadius THEN blend(y, FARM_HEIGHT, blendFactor)
        ELSE y

grassFlatten(p, nf, y) ==
    LET grassRadius == getGrassRadiusAt(p, nf)
        distToGrass == Dist(p, TARGET_CENTER)
        t == Min(1000, Div(distToGrass * 1000, grassRadius))
    IN  IF distToGrass < grassRadius THEN blend(y, 20 * PosScale + nf.undulation, t)
        ELSE y

mainPathFlatten(p, nf, y) ==
    LET distToFarmPath == distanceToMainPath(p)
        t == smoothstep(distToFarmPath, 0, PATH_WIDTH)
        progressAlongPath == clamp(Div(pathDot(p) * 1000, PATH_LENGTH), 0, 1000)
        targetPathHeight == FARM_HEIGHT + Div((20 * PosScale - FARM_HEIGHT) * progressAlongPath, 1000)
    IN  IF distToFarmPath < PATH_WIDTH THEN blend(y, targetPathHeight + nf.texture, t)
        ELSE y

forkPathFlatten(p, nf, y) ==
    LET t == smoothstep(distToForkPath(p, nf), 0, 10 * PosScale)
        forkTargetH == Div(y * 8, 10)
    IN  IF inForkQuadrant(p) /\ distToForkPath(p, nf) < 10 * PosScale
        THEN blend(y, forkTargetH, t)
        ELSE y

getTerrainHeight(p, nf) ==
    forkPathFlatten(p, nf, mainPathFlatten(p, nf, grassFlatten(p, nf, farmFlatten(p, nf.base))))

getBiome(p, nf, height) ==
    IF height > 30 * PosScale THEN "snow"
    ELSE IF distanceToMainPath(p) < PATH_WIDTH_BIOME THEN "path"
    ELSE IF inForkQuadrant(p) /\ distToForkPath(p, nf) < 8 * PosScale THEN "path"
    ELSE IF Dist(p, TARGET_CENTER) < getGrassRadiusAt(p, nf) - 5 * PosScale THEN "lush_grass"
    ELSE IF /\ Abs(p[1] - FARM_CENTER[1]) < FARM_HALF - 2 * PosScale
            /\ Abs(p[2] - FARM_CENTER[2]) < FARM_HALF - 2 * PosScale THEN "farm_dirt"
    ELSE IF nf.moisture > 300 THEN "snow_forest"
    ELSE IF nf.moisture < -200 THEN "plains"
    ELSE "snow_plains"

\* ---------------------------------------------------- terrain: sampled pairs
\* the length of the small step between the two points of a pair
Eps == PosScale \div 50

\* lines across every zone boundary: a point on the boundary (or next to it)
\* and the axis along which the line crosses it
Crossings ==
    { [at |-> <<-130 * PosScale, -100 * PosScale>>, axis |-> 1],  \* farm edge, midpoint of a side
      [at |-> <<-130 * PosScale, -40 * PosScale>>, axis |-> 1],   \* farm edge, 60 units off the midpoint
      [at |-> <<-150 * PosScale, -30 * PosScale>>, axis |-> 2],   \* farm front edge, 50 units off
      [at |-> <<230 * PosScale, 150 * PosScale>>, axis |-> 1],    \* grassland radius
      [at |-> <<-4411, 50 * PosScale>>, axis |-> 1],              \* main path, blend width
      [at |-> <<-1792, 100 * PosScale>>, axis |-> 1],             \* fork path, blend width
      [at |-> <<20 * PosScale, 30 * PosScale>>, axis |-> 1],      \* fork path, quadrant limit x = 20
      [at |-> <<10 * PosScale, -20 * PosScale>>, axis |-> 2] }    \* fork path, quadrant limit z = -20

Step(c, k) == IF c.axis = 1 THEN <<k * Eps, 0>> ELSE <<0, k * Eps>>

NoiseFields == { FlatNoise(b * PosScale) : b \in {0, 5, 20, 40} }

InitTerrain == probe = Null

\* getTerrainHeight at a point of a crossing line and at the point one small
\* step farther along it
ProbeHeight(c, k, nf) ==
    /\ probe' = [from |-> Add(c.at, Step(c, k)), to |-> Add(c.at, Step(c, k + 1)),
                 crossing |-> c, noise |-> nf,
                 heightFrom |-> getTerrainHeight(Add(c.at, Step(c, k)), nf),
                 heightTo |-> getTerrainHeight(Add(c.at, Step(c, k + 1)), nf)]
    /\ UNCHANGED << dogVars, herdVars >>

\* ------------------------------------------------------------- Herd: inputs
Sheep == 0 .. NumSheep - 1

\* Spawn points inside the pen.  Sheep 0 and 1 stand a little more or less than
\* a cell apart on both sides of a cell border, the others next to sheep 1.
StartPositions(i) ==
    CASE i = 0 -> { <<-210 * PosScale + 1, -100 * PosScale>>,
                    <<-205 * PosScale, -100 * PosScale>> }
      [] i = 1 -> { <<-230 * PosScale - 1, -100 * PosScale>>,
                    <<-228 * PosScale, -100 * PosScale>> }
      [] OTHER -> { <<(-232 - 3 * (i - 2)) * PosScale, -103 * PosScale>>,
                    <<(-226 + 3 * (i - 2)) * PosScale, -98 * PosScale>> }

\* randomRange(-0.5, 0.5) on each axis
StartVelocities(i) ==
    IF i = 0 THEN { <<-(VelScale \div 2), 0>>, <<VelScale \div 2, 0>> }
    ELSE { <<0, 0>>, <<VelScale \div 4, VelScale \div 4>> }

RestFlock ==
    [i \in Sheep |-> [position |-> CHOOSE q \in StartPositions(i) :
                                       \A r \in StartPositions(i) : q[1] <= r[1],
                      velocity |-> <<0, 0>>]]

\* every choice of spawn point and velocity for sheep 0, 1 and 2; the sheep
\* after them stand where RestFlock has them
StartFlocks ==
    { [i \in Sheep |-> IF i < 3 THEN [position |-> ch[i + 1][1], velocity |-> ch[i + 1][2]]
                       ELSE RestFlock[i]] :
        ch \in (StartPositions(0) \X StartVelocities(0))
                \X (StartPositions(1) \X StartVelocities(1))
                \X (StartPositions(2) \X StartVelocities(2)) }

\* the noise field as the flock's runs see it: flat, at height 0
herdNoise == FlatNoise(0)

\* a range that reaches 40 s
FeedTimersWide == { 14 * TimeScale, 40 * TimeScale }

\* randomRange(14, 34): the least value and the greatest
FeedTimers == { 14 * TimeScale, 34 * TimeScale - 1 }

\* personality: maxSpeed with factor 1, wanderOffset 0, grazeAngle 0 and
\* grazeRadiusFactor 15/19
maxSpeed(i) == BASE_MAX_SPEED

dynamicGrassRadius(i) ==
    Max(55 * PosScale, getGrassRadiusAt(flockData[i].position, herdNoise) - 4 * PosScale)

grazeRadius(i) ==
    LET grassRadiusAtAngle ==
            getGrassRadiusAt(Add(TARGET_CENTER, <<GRASS_RADIUS_EST, 0>>), herdNoise)
    IN  Max(45 * PosScale, Div(Min(dynamicGrassRadius(i), grassRadiusAtAngle) * 15, 19))

grazeTarget(i) == Add(TARGET_CENTER, <<grazeRadius(i), 0>>)

EmptyGrid == [k \in {} |-> << >>]

\* ----------------------------------------------------- Herd: the spatial grid
cellKey(p) == << (p[1] + BOUNDS_X) \div CELL_SIZE, (p[2] + BOUNDS_Z) \div CELL_SIZE >>

\* the key "NaN,NaN" of a sheep whose position is not finite
NaNCell == << -(1000), -(1000) >>

Finite(i) == i \notin nonFinite.sheep

cellOf(i) == IF Finite(i) THEN cellKey(flockData[i].position) ELSE NaNCell

\* if (!grid.has(key)) grid.set(key, []); grid.get(key).push(i)
gridPush(g, key, i) ==
    IF key \in DOMAIN g THEN [g EXCEPT ![key] = Append(@, i)]
    ELSE [k \in DOMAIN g \cup {key} |-> IF k = key THEN <<i>> ELSE g[k]]

RECURSIVE gridFill(_, _)
gridFill(g, i) ==
    IF i >= NumSheep THEN g
    ELSE gridFill(gridPush(g, cellOf(i), i), i + 1)

\* a variant that fills the buckets without clearing the map first
updateGridNoClear == gridFill(grid, 0)

updateGrid == gridFill(EmptyGrid, 0)

bucket(key, sheepIdx) ==
    IF key \in DOMAIN grid THEN SelectSeq(grid[key], LAMBDA n : n # sheepIdx) ELSE << >>

\* the indices of the objects getNeighbors returns, in its order
getNeighbors(sheepIdx) ==
    LET c == cellOf(sheepIdx)
        col(x) == bucket(<<c[1] + x, c[2] - 1>>, sheepIdx)
                  \o bucket(<<c[1] + x, c[2]>>, sheepIdx)
                  \o bucket(<<c[1] + x, c[2] + 1>>, sheepIdx)
    IN  IF Finite(sheepIdx) THEN col(-1) \o col(0) \o col(1)
        ELSE bucket(NaNCell, sheepIdx)

\* ------------------------------------------------- Herd: one sheep of the loop
RECURSIVE sumFirst(_, _)
sumFirst(vs, n) == IF n = 0 THEN <<0, 0>> ELSE Add(sumFirst(vs, n - 1), vs[n])

\* the mean of a non-empty sequence of vectors
average(vs) == MulDiv(sumFirst(vs, Len(vs)), 1, Len(vs))

\* the neighbours nearer than r; a comparison with a NaN distance is false
within(i, ns, r) ==
    SelectSeq(ns, LAMBDA j : /\ Finite(j)
                             /\ DistSq(flockData[i].position, flockData[j].position) < r * r)

\* (_pos - other.position).normalize().divideScalar(dist)
awayFrom(i, j) ==
    LET dd == Dist(flockData[i].position, flockData[j].position)
    IN  IF dd = 0 THEN <<0, 0>>
        ELSE MulDiv(SetLength(Sub(flockData[i].position, flockData[j].position), 1000),
                    PosScale, dd)

\* A neighbour at the very same place: normalize() leaves the zero vector and
\* divideScalar(Math.sqrt(0)) turns it into NaN, which goes through separation,
\* _acc and _vel into _pos.
separationNaN(i, ns) ==
    \E n \in 1 .. Len(ns) :
        Finite(ns[n]) /\ flockData[ns[n]].position = flockData[i].position

\* normalize().multiplyScalar(maxSpeed).sub(_vel).clampLength(0, limit)
steerTo(i, dir, limit) ==
    ClampLength(Sub(SetLength(dir, maxSpeed(i)), flockData[i].velocity), limit)

separation(i, ns) ==
    LET near == within(i, ns, SEPARATION_DISTANCE)
    IN  IF near = << >> THEN <<0, 0>>
        ELSE steerTo(i, average([n \in 1 .. Len(near) |-> awayFrom(i, near[n])]),
                     2 * MAX_FORCE)

alignment(i, ns) ==
    LET near == within(i, ns, ALIGNMENT_DISTANCE)
    IN  IF near = << >> THEN <<0, 0>>
        ELSE steerTo(i, average([n \in 1 .. Len(near) |-> flockData[near[n]].velocity]),
                     MAX_FORCE)

cohesion(i, ns) ==
    LET near == within(i, ns, COHESION_DISTANCE)
    IN  IF near = << >> THEN <<0, 0>>
        ELSE steerTo(i, Sub(average([n \in 1 .. Len(near) |-> flockData[near[n]].position]),
                            flockData[i].position),
                     MAX_FORCE)

\* edgeRepel times the margin: a length, zero farther than 12 units from every edge
edgeRepel(p) ==
    LET margin == 12 * PosScale
    IN  << (IF p[1] < -BOUNDS_X + margin THEN (-BOUNDS_X + margin) - p[1] ELSE 0)
             - (IF p[1] > BOUNDS_X - margin THEN p[1] - (BOUNDS_X - margin) ELSE 0),
           (IF p[2] < -BOUNDS_Z + margin THEN (-BOUNDS_Z + margin) - p[2] ELSE 0)
             - (IF p[2] > BOUNDS_Z - margin THEN p[2] - (BOUNDS_Z - margin) ELSE 0) >>

\* the evasion steer for one dog within the flee threshold: away from the dog,
\* toward the goal and toward open space, weighted 0.5 / 0.32 / 0.35, at
\* maxSpeed * MAX_FLEE_SPEED_BOOST, clamped to MAX_FORCE * MAX_FLEE_FORCE_BOOST
fleeSteer(i, dogPos) ==
    LET pos == flockData[i].position
        away == SetLength(Sub(pos, dogPos), 1000)
        goalPoint == IF Dist(pos, TARGET_CENTER) * 10 > dynamicGrassRadius(i) * 12
                     THEN TARGET_CENTER ELSE grazeTarget(i)
        toGoal == SetLength(Sub(goalPoint, pos), 1000)
        e == edgeRepel(pos)
        openDir == IF LengthSq(e) > 36 THEN SetLength(e, 1000)
                   ELSE MulDiv(e, 1000, 12 * PosScale)
        blended == SetLength(Add(Add(MulDiv(away, 50, 100), MulDiv(toGoal, 32, 100)),
                                 MulDiv(openDir, 35, 100)),
                             (maxSpeed(i) * 42) \div 10)
    IN  ClampLength(Sub(blended, flockData[i].velocity), (MAX_FORCE * 74) \div 10)

\* sheep.state.confidence = Math.max(0, sheep.state.confidence - delta * 1.5)
decay(confidence) == Max(0, confidence - 15 * herdDelta)

\* without the clamp
recoveryUnclamped(confidence) == confidence + herdDelta

\* with the sign of the recovery turned
recoveryNegated(confidence) == clamp(confidence - herdDelta, 0, ConfScale)

\* sheep.state.confidence = clamp(sheep.state.confidence + delta * 0.1, 0, 1)
recovery(confidence) == clamp(confidence + herdDelta, 0, ConfScale)

\* feeding goes on at a timer of exactly 0
stillFeedingAtZero(feedingTimer) == feedingTimer >= 0

\* if (sheep.state.feedingTimer <= 0) sheep.state.feeding = false
stillFeeding(feedingTimer) == ~(feedingTimer <= 0)

\* The loop over the dogs of the array dogArray (the `dogs` prop), from dog
\* dIdx on.  s carries _acc's share, the confidence and the feeding flag as
\* the dogs before dIdx left them.
RECURSIVE dogAvoidance(_, _, _, _)
dogAvoidance(dogArray, i, dIdx, s) ==
    IF dIdx >= NumDogs THEN s
    ELSE LET distToDogSq == DistSq(flockData[i].position, dogArray[dIdx])
             quarterSq == (FLEE_RADIUS * FLEE_RADIUS) \div 16
             inRange == IF s.feeding THEN distToDogSq <= quarterSq
                        ELSE distToDogSq < FLEE_RADIUS * FLEE_RADIUS
             after == IF inRange
                      THEN [acc |-> Add(s.acc, fleeSteer(i, dogArray[dIdx])),
                            confidence |-> decay(s.confidence),
                            feeding |-> s.feeding /\ ~(distToDogSq <= quarterSq),
                            inRange |-> TRUE]
                      ELSE s
         IN  CHOOSE r \in { dogAvoidance(dogArray, i, dIdx + 1, t) : t \in {after} } : TRUE

\* Target seeking: pullStrength 2.1 or 0.6, pullBoost 1.5, 1.2 or 1.0, the
\* force limit MAX_FORCE * 1.5 or * 0.6
seekForce(i) ==
    LET distToTarget == Dist(flockData[i].position, grazeTarget(i))
        pullStrength == IF distToTarget > grazeRadius(i) THEN 21 ELSE 6
        pullBoost == IF distToTarget > 2 * grazeRadius(i) THEN 15
                     ELSE IF distToTarget > grazeRadius(i) + 20 * PosScale THEN 12 ELSE 10
    IN  ClampLength(Sub(SetLength(Sub(grazeTarget(i), flockData[i].position),
                                  (maxSpeed(i) * pullStrength * pullBoost) \div 100),
                        flockData[i].velocity),
                    IF distToTarget > grazeRadius(i) THEN (MAX_FORCE * 15) \div 10
                    ELSE (MAX_FORCE * 6) \div 10)

\* the clock of the tick: every tick of a run has the same delta
herdTime == herdTicks * herdDelta

\* <<sin(wanderAngle) * 0.9, cos(wanderAngle * 0.9) * 0.9>> * 1000 with
\* wanderAngle = time * 0.6 (wanderOffset 0), for every half second of the clock
WanderTable ==
    << <<0, 900>>, <<266, 867>>, <<508, 772>>, <<705, 621>>, <<839, 424>>, <<898, 197>>,
       <<876, -44>>, <<777, -282>>, <<608, -500>>, <<385, -682>>, <<127, -814>>, <<-142, -887>>,
       <<-398, -896>>, <<-619, -840>>, <<-784, -723>>, <<-880, -554>>, <<-897, -344>>, <<-833, -110>>,
       <<-695, 132>>, <<-496, 365>>, <<-251, 571>>, <<15, 736>>, <<280, 848>>, <<521, 898>>,
       <<714, 883>>, <<844, 804>>, <<899, 667>>, <<873, 481>>, <<769, 261>>, <<597, 22>>,
       <<371, -219>>, <<112, -444>>, <<-157, -637>>, <<-412, -783>>, <<-630, -873>>, <<-792, -900>>,
       <<-883, -861>>, <<-895, -760>>, <<-827, -604>>, <<-686, -404>>, <<-483, -175>>, <<-237, 67>>,
       <<30, 304>>, <<295, 519>>, <<533, 696>>, <<723, 823>>, <<849, 890>>, <<899, 893>>,
       <<869, 831>>, <<761, 709>>, <<585, 535>>, <<357, 323>>, <<97, 87>>, <<-172, -155>>,
       <<-425, -386>>, <<-641, -589>>, <<-799, -749>>, <<-886, -855>>, <<-893, -899>>, <<-821, -878>>,
       <<-676, -793>>, <<-470, -651>>, <<-222, -462>>, <<45, -239>>, <<309, 1>>, <<545, 241>>,
       <<732, 464>>, <<854, 653>>, <<900, 794>>, <<865, 878>>, <<753, 899>>, <<574, 854>>,
       <<343, 748>>, <<82, 587>>, <<-187, 384>>, <<-438, 153>>, <<-651, -90>>, <<-806, -325>>,
       <<-888, -537>>, <<-891, -710>>, <<-815, -832>> >>

\* the wander vector: the table entry (the fbm samples are 0) times
\* wanderSpeed * wanderDampen, with wanderSpeed = 0.25 * wanderDampen
wanderVec(i) ==
    LET distToGoal == Dist(flockData[i].position, grazeTarget(i))
        dampenSq == IF distToGoal > 2 * grazeRadius(i) THEN 100
                    ELSE IF distToGoal > grazeRadius(i) + 20 * PosScale THEN 1225 ELSE 10000
        entry == WanderTable[Min(herdTime \div (TimeScale \div 2), 80) + 1]
    IN  MulDiv(entry, VelScale * dampenSq, 4 * 1000 * 10000)

\* the world's edge pushes the velocity back by 1
edgeNudge(p) ==
    << (IF p[1] < -BOUNDS_X THEN VelScale ELSE 0) - (IF p[1] > BOUNDS_X THEN VelScale ELSE 0),
       (IF p[2] < -BOUNDS_Z THEN VelScale ELSE 0) - (IF p[2] > BOUNDS_Z THEN VelScale ELSE 0) >>

wallBuffer == (3 * PosScale) \div 2

\* Terrain constraint: _pos.y += yDiff * 0.25; if (_pos.y < desiredY) _pos.y = desiredY
terrainConstraint(y, groundHeight) ==
    LET terrainClearance == PosScale \div 5
        desiredY == groundHeight + terrainClearance
        eased == y + Div(desiredY - y, 4)
    IN  IF eased < desiredY THEN desiredY ELSE eased

\* a fence of the farm square blocks the point p
atWall(p) ==
    LET dx == p[1] - FARM_CENTER[1]
        dz == p[2] - FARM_CENTER[2]
        gateX == Abs(dx) <= GATE_HALF
        gateZ == Abs(dz) <= GATE_HALF
        corner(sx, sz) == /\ Abs(dx - sx * FARM_HALF) < FARM_CORNER_OPEN
                          /\ Abs(dz - sz * FARM_HALF) < FARM_CORNER_OPEN
        frontWall == dz > FARM_HALF - wallBuffer /\ ~(gateX \/ corner(-1, 1) \/ corner(1, 1))
        backWall == dz < -FARM_HALF + wallBuffer /\ ~(gateX \/ corner(-1, -1) \/ corner(1, -1))
        sideLeft == dx < -FARM_HALF + wallBuffer /\ ~(gateZ \/ corner(-1, 1) \/ corner(-1, -1))
        sideRight == dx > FARM_HALF - wallBuffer /\ ~(gateZ \/ corner(1, 1) \/ corner(1, -1))
    IN  /\ Abs(dx) < FARM_HALF /\ Abs(dz) < FARM_HALF
        /\ (frontWall \/ sideLeft \/ sideRight \/ backWall)

\* The loop body for sheep i in three parts, each taking the values of the
\* part before.  First what it reads and the forces it gathers: lines 156-281.
forces(i) ==
    LET pos == flockData[i].position
        ns == getNeighbors(i)
        isInGrazingBiome ==
            Finite(i) /\ getBiome(pos, herdNoise, getTerrainHeight(pos, herdNoise)) = "lush_grass"
        calm == [acc |-> <<0, 0>>, confidence |-> state[i].confidence,
                 feeding |-> state[i].feeding, inRange |-> FALSE]
        distToGoal == Dist(pos, grazeTarget(i))
    IN  [pos |-> pos,
         vel |-> flockData[i].velocity,
         groundHeight |-> getTerrainHeight(pos, herdNoise),
         nan |-> ~Finite(i) \/ separationNaN(i, ns),
         flocking |-> Add(Add(separation(i, ns), alignment(i, ns)), cohesion(i, ns)),
         fled |-> IF Finite(i) THEN dogAvoidance(dogs, i, 0, calm) ELSE calm,
         isInGrazingBiome |-> isInGrazingBiome,
         inRadius |-> Finite(i) /\ distToGoal < grazeRadius(i),
         isAlreadyInGrassland |-> isInGrazingBiome /\ distToGoal < grazeRadius(i) + 8 * PosScale,
         nearPasture |-> distToGoal < grazeRadius(i) + 20 * PosScale,
         isStray |-> Finite(i) /\ distToGoal > grazeRadius(i) + 30 * PosScale,
         distToTargetCenter |-> Dist(pos, TARGET_CENTER),
         seekForce |-> seekForce(i),
         wanderVec |-> wanderVec(i)]

\* Then the decisions and the integration: lines 262-331.  roll is
\* Math.random() < 0.18 and timer is randomRange(14, 34).
integrate(i, f, roll, timer) ==
    LET canEnterGrassland == inGrasslandCount < GrasslandCap
        seeks == /\ 5 * f.fled.confidence > ConfScale
                 /\ (canEnterGrassland \/ f.isAlreadyInGrassland)
        grazes == seeks /\ f.inRadius /\ f.isInGrazingBiome
        enters == /\ grazes /\ ~f.fled.feeding /\ roll
                  /\ 100 * f.fled.confidence > 35 * ConfScale
        feedingNow == f.fled.feeding \/ enters
        timerNow == IF enters THEN timer ELSE state[i].feedingTimer
        timerAfter == IF feedingNow THEN timerNow - herdDelta ELSE timerNow
        vel1 == IF grazes THEN MulDiv(f.vel, 9, 10) ELSE f.vel
        vel2 == IF feedingNow THEN MulDiv(vel1, 85, 100) ELSE vel1
        acc == Add(Add(f.flocking, f.fled.acc),
                   Add(IF seeks THEN f.seekForce ELSE <<0, 0>>, f.wanderVec))
        v == Add(vel2, acc)
        vel3 == IF LengthSq(v) > maxSpeed(i) * maxSpeed(i) THEN SetLength(v, maxSpeed(i)) ELSE v
    IN  [vel |-> vel3,
         pos |-> Add(f.pos, MulDiv(vel3, herdDelta, DispDiv)),
         \* sheep.velocity.multiplyScalar(0.02) at the transition: the stored
         \* velocity, which the write back replaces with _vel
         stored |-> IF enters THEN MulDiv(f.vel, 2, 100) ELSE f.vel,
         seeks |-> seeks, enters |-> enters,
         feeding |-> feedingNow /\ stillFeeding(timerAfter),
         feedingTimer |-> timerAfter,
         fedFor |-> IF enters THEN herdDelta
                    ELSE IF feedingNow THEN stepLog[i].fedFor + herdDelta
                    ELSE stepLog[i].fedFor,
         given |-> IF enters THEN timer ELSE stepLog[i].given,
         confidence |-> recovery(f.fled.confidence)]

\* Last the world's edge, the farm walls, the write back and the counters:
\* lines 327-375 and 520-527.
contain(i, f, m) ==
    LET vel4 == Add(m.vel, edgeNudge(m.pos))
        lo == Sub(FARM_CENTER, <<FARM_HALF - wallBuffer, FARM_HALF - wallBuffer>>)
        hi == Add(FARM_CENTER, <<FARM_HALF - wallBuffer, FARM_HALF - wallBuffer>>)
        blocked == ~f.nan /\ atWall(m.pos)
    IN  [position |-> IF f.nan THEN f.pos
                      ELSE IF blocked THEN <<clamp(m.pos[1], lo[1], hi[1]),
                                             clamp(m.pos[2], lo[2], hi[2])>>
                      ELSE m.pos,
         velocity |-> IF f.nan THEN f.vel
                      ELSE IF blocked THEN MulDiv(vel4, 25, 100) ELSE vel4,
         y |-> IF f.nan THEN posY[i] ELSE terrainConstraint(posY[i], f.groundHeight),
         nan |-> f.nan,
         confidence |-> m.confidence,
         feeding |-> m.feeding,
         feedingTimer |-> m.feedingTimer,
         isStray |-> f.isStray,
         stray |-> [d |-> f.distToTargetCenter, pos |-> m.pos, nan |-> f.nan, idx |-> i],
         counted |-> m.feeding /\ f.isInGrazingBiome /\ f.nearPasture,
         log |-> [ticks |-> herdTicks, delta |-> herdDelta, inRange |-> f.fled.inRange, evasion |-> f.fled.acc,
                  disturbed |-> stepLog[i].disturbed \/ f.fled.inRange,
                  before |-> state[i], speedBefore |-> Length(f.vel), from |-> f.pos,
                  yBefore |-> posY[i], groundHeight |-> f.groundHeight,
                  dogsRead |-> dogs,
                  confidenceAtRoll |-> f.fled.confidence,
                  biome |-> f.isInGrazingBiome, inRadius |-> f.inRadius,
                  already |-> f.isAlreadyInGrassland, gate |-> inGrasslandCount,
                  seeks |-> m.seeks, entered |-> m.enters,
                  given |-> m.given, fedFor |-> m.fedFor,
                  stored |-> m.stored, landed |-> m.pos, blocked |-> blocked]]

\* the position read of every neighbour, the velocity of those it aligns with
readsOf(i) ==
    LET ns == getNeighbors(i)
    IN  [n \in 1 .. Len(ns) |->
            [idx |-> ns[n],
             position |-> flockData[ns[n]].position,
             velocity |-> IF DistSq(flockData[i].position, flockData[ns[n]].position)
                               < ALIGNMENT_DISTANCE * ALIGNMENT_DISTANCE
                          THEN flockData[ns[n]].velocity ELSE Null]]

\* topStrays.sort((a, b) => b.d - a.d): stable, farthest first
RECURSIVE insertStray(_, _)
insertStray(sorted, x) ==
    IF sorted = << >> THEN <<x>>
    ELSE IF Head(sorted).d >= x.d THEN <<Head(sorted)>> \o insertStray(Tail(sorted), x)
    ELSE <<x>> \o sorted

RECURSIVE sortStrays(_, _)
sortStrays(list, n) ==
    IF n = 0 THEN << >> ELSE insertStray(sortStrays(list, n - 1), list[n])

\* .sort(...).slice(-3): the last three
slicedTail(list) ==
    SubSeq(sortStrays(list, Len(list)), Max(1, Len(list) - 2), Len(list))

\* .sort(...).slice(0, 3)
sliced(list) == SubSeq(sortStrays(list, Len(list)), 1, Min(3, Len(list)))

topThree(list) == [n \in 1 .. Len(sliced(list)) |-> sliced(list)[n].pos]

\* ------------------------------------------------------- Herd useFrame, in steps
\* the callback starts: updateGrid and the accumulators
HerdBegin(dl, maxTicks) ==
    /\ hpc = "idle"
    /\ herdTicks < maxTicks
    /\ grid' = updateGrid
    /\ hpc' = "loop"
    /\ loopIndex' = 0
    /\ herdTicks' = herdTicks + 1
    /\ herdDelta' = dl
    /\ sumPos' = <<0, 0>> /\ activeSheep' = 0 /\ topStrays' = << >>
    /\ inGrasslandCount' = 0
    /\ nonFinite' = [nonFinite EXCEPT !.sum = FALSE]
    /\ tickStart' = flockData
    /\ prevCell' = [i \in Sheep |-> cellKey(tickStart[i].position)]
    /\ neighborReads' = [i \in Sheep |-> << >>]
    /\ UNCHANGED << flockData, posY, state, stepLog >>
    /\ UNCHANGED << dogVars, terrainVars >>

\* one pass of the main loop, write back included; the draws of Math.random()
\* are taken only where the sheep can start to feed
SheepStep ==
    /\ hpc = "loop"
    /\ loopIndex < NumSheep
    /\ \E f \in {forces(loopIndex)} :
       \E roll \in BOOLEAN, timer \in FeedTimers :
       \E m \in {integrate(loopIndex, f, roll, timer)} :
       \E u \in {contain(loopIndex, f, m)} :
            /\ IF roll THEN m.enters ELSE timer = 14 * TimeScale
            /\ flockData' = [flockData EXCEPT ![loopIndex] =
                    [position |-> u.position, velocity |-> u.velocity]]
            /\ posY' = [posY EXCEPT ![loopIndex] = u.y]
            /\ state' = [state EXCEPT ![loopIndex] =
                    [confidence |-> u.confidence, feeding |-> u.feeding,
                     feedingTimer |-> u.feedingTimer]]
            /\ nonFinite' = [nonFinite EXCEPT
                    !.sheep = IF u.nan THEN @ \cup {loopIndex} ELSE @,
                    !.sum = @ \/ u.nan]
            /\ topStrays' = IF u.isStray THEN Append(topStrays, u.stray) ELSE topStrays
            /\ inGrasslandCount' = inGrasslandCount + (IF u.counted THEN 1 ELSE 0)
            /\ sumPos' = Add(sumPos, u.position)
            /\ stepLog' = [stepLog EXCEPT ![loopIndex] = u.log]
    /\ neighborReads' = [neighborReads EXCEPT ![loopIndex] = readsOf(loopIndex)]
    /\ activeSheep' = activeSheep + 1
    /\ loopIndex' = loopIndex + 1
    /\ UNCHANGED << hpc, herdTicks, herdDelta, grid, tickStart, prevCell >>
    /\ UNCHANGED << dogVars, terrainVars >>

\* after the loop: the centroid and the stray list go to the parent's setters
HerdEnd ==
    /\ hpc = "loop"
    /\ loopIndex = NumSheep
    /\ hpc' = "idle"
    /\ herdCenterNext' = IF activeSheep > 0 THEN MulDiv(sumPos, 1, activeSheep)
                         ELSE herdCenterNext
    /\ strayTargetNext' = topThree(topStrays)
    /\ nonFinite' = [nonFinite EXCEPT
            !.center = IF activeSheep > 0 THEN nonFinite.sum ELSE @,
            !.strays = \E n \in 1 .. Len(sliced(topStrays)) : sliced(topStrays)[n].nan]
    /\ UNCHANGED << loopIndex, herdTicks, herdDelta, flockData, posY, grid, sumPos, activeSheep,
                    topStrays, tickStart, prevCell, neighborReads, state,
                    inGrasslandCount, stepLog >>
    /\ UNCHANGED << pc, frameNo, time, delta, clicks, lastClick, flock, dogs, dogsNext,
                    herdCenter, strayTarget, dogCommands, dogCommandsNext, dogState,
                    dogStateNext, commandTarget, targetPosition, commandTimer,
                    lastCommandDistance, stuckTimer, timeSinceCommand, position, velocity,
                    dogsTick, dogsNextTick, herdTick, herdNextTick, sheepReadTick,
                    dogReadTick, nearCommand, windowStart, verdict >>
    /\ UNCHANGED terrainVars

\* A sheep in the spawn square stands as the constructor put it, 0.1 above the
\* ground; one that has left it stands at the clearance of the ticks before.
startY(p) ==
    getTerrainHeight(p, herdNoise)
        + (IF /\ Abs(p[1] - FARM_CENTER[1]) <= FARM_HALF - 10 * PosScale
              /\ Abs(p[2] - FARM_CENTER[2]) <= FARM_HALF - 10 * PosScale
           THEN PosScale \div 10 ELSE PosScale \div 5)

InitHerd(starts) ==
    /\ hpc = "idle" /\ loopIndex = 0 /\ herdTicks = 0 /\ herdDelta = 0
    /\ flockData \in starts
    /\ posY = [i \in Sheep |-> startY(flockData[i].position)]
    /\ grid = EmptyGrid
    /\ sumPos = <<0, 0>> /\ activeSheep = 0 /\ topStrays = << >>
    /\ tickStart = flockData
    /\ prevCell = [i \in Sheep |-> cellKey(flockData[i].position)]
    /\ neighborReads = [i \in Sheep |-> << >>]
    /\ state = [i \in Sheep |-> [confidence |-> ConfScale, feeding |-> FALSE, feedingTimer |-> 0]]
    /\ inGrasslandCount = 0
    /\ nonFinite = [sheep |-> {}, sum |-> FALSE, center |-> FALSE, strays |-> FALSE]
    /\ stepLog = [i \in Sheep |-> [ticks |-> 0, given |-> 0, fedFor |-> 0, disturbed |-> FALSE]]

\* ------------------------------------------------------------ specifications
\* the dogs and their wiring, the flock as the summary it reports
Init == InitDogs /\ InitHerd({RestFlock}) /\ InitTerrain

Next ==
    \/ \E point \in ClickPoints : handleTerrainClick(point, ClickFrames)
    \/ Render
    \/ BeginFrame(SlowDelta, MaxFrames)
    \/ HerdFrame
    \/ \E d \in Dogs : DogFrame(d)

Spec == Init /\ [][Next]_vars

\* the same program on a 200 Hz display, one click before the first frame
NextFast ==
    \/ \E point \in ClickPoints : handleTerrainClick(point, FastClickFrames)
    \/ Render
    \/ BeginFrame(FastDelta, FastFrames)
    \/ HerdFrame
    \/ \E d \in Dogs : DogFrame(d)

SpecFast == Init /\ [][NextFast]_vars

\* the same program with a flock whose summary changes while the dogs run
NextRoam ==
    \/ Next
    \/ FlockTurns(TurnFrames)

SpecRoam == Init /\ [][NextRoam]_vars

\* the flock's tick sheep by sheep, the dogs standing at their start
InitFlock == InitDogs /\ InitHerd(StartFlocks) /\ InitTerrain

NextHerd ==
    \/ HerdBegin(SlowDelta, MaxHerdTicks)
    \/ SheepStep
    \/ HerdEnd

SpecHerd == InitFlock /\ [][NextHerd]_vars

\* The flock on the pasture: sheep 0 and 1 stand within their graze radius on
\* lush grass, sheep 0 at a trot; the others are in the pen, 10 units from the
\* right fence.  Dog 0 stands far away, 20 units from sheep 0, or 5 units, and
\* in the last placement dog 1 stands 16 units from sheep 0 as well.
GrazeFlock ==
    [i \in Sheep |->
        CASE i = 0 -> [position |-> <<200 * PosScale, 150 * PosScale>>,
                       velocity |-> <<4 * VelScale, 2 * VelScale>>]
          [] i = 1 -> [position |-> <<185 * PosScale, 165 * PosScale>>,
                       velocity |-> <<0, 0>>]
          [] OTHER -> [position |-> <<(-140 - 5 * (i - 2)) * PosScale, -60 * PosScale>>,
                       velocity |-> <<VelScale \div 2, 0>>]]

GrazeDogs ==
    { InitialDogs,
      [InitialDogs EXCEPT ![0] = <<180 * PosScale, 150 * PosScale>>],
      [InitialDogs EXCEPT ![0] = <<195 * PosScale, 150 * PosScale>>],
      [InitialDogs EXCEPT ![0] = <<195 * PosScale, 150 * PosScale>>,
                          ![1] = <<215 * PosScale, 155 * PosScale>>] }

InitGraze == DogsStanding(GrazeDogs) /\ InitHerd({GrazeFlock}) /\ InitTerrain

\* a frame of the running page, short or slow, or the long one
GrazeDeltas == { QuickDelta, SlowDelta, LongDelta }

NextGraze ==
    \/ \E dl \in GrazeDeltas : HerdBegin(dl, MaxGrazeTicks)
    \/ SheepStep
    \/ HerdEnd

SpecGraze == InitGraze /\ [][NextGraze]_vars

\* The flock in the pen with sheep 0 in one of five places: on the very spot of
\* sheep 1; 3 units from the right fence and 40 from its gate, at 6 units per
\* second, or at 3; at 6 units per second in front of the gate; and, driven
\* out of the pen and over the world's edge, 8 units beyond it on its way back
\* at 6 units per second.
PenFlocks ==
    { [RestFlock EXCEPT ![0] = s0, ![1] = [position |-> <<-200 * PosScale, -100 * PosScale>>,
                                           velocity |-> <<0, 0>>]] :
        s0 \in { [position |-> <<-200 * PosScale, -100 * PosScale>>,
                  velocity |-> <<VelScale \div 4, 0>>],
                 [position |-> <<-133 * PosScale, -60 * PosScale>>,
                  velocity |-> <<6 * VelScale, 0>>],
                 [position |-> <<-133 * PosScale, -60 * PosScale>>,
                  velocity |-> <<3 * VelScale, 0>>],
                 [position |-> <<-133 * PosScale, -100 * PosScale>>,
                  velocity |-> <<6 * VelScale, 0>>],
                 [position |-> <<-358 * PosScale, -100 * PosScale>>,
                  velocity |-> <<6 * VelScale, 0>>] } }

InitPen == InitDogs /\ InitHerd(PenFlocks) /\ InitTerrain

SpecPen == InitPen /\ [][NextHerd]_vars

\* the terrain field, sampled across its zone boundaries
NextTerrain == \E c \in Crossings, k \in -3 .. 2, nf \in NoiseFields : ProbeHeight(c, k, nf)

SpecTerrain == Init /\ [][NextTerrain]_vars

\* ------------------------------------------------------------------- claims
\* the step is dog d's frame callback taking the MOVING branch
MovingTick(d) == pc = 2 + d /\ dogState[d] = "MOVING" /\ targetPosition[d] # Null

Abandoned(d) ==
    /\ targetPosition'[d] = Null /\ commandTarget'[d] = Null
    /\ dogStateNext'[d] = "AUTONOMOUS"
    /\ commandTimer'[d] = 0 /\ stuckTimer'[d] = 0

\* C1: a dog in Moving never carries a command past the limits. commandTimer
\* never exceeds 7 s and stuckTimer never exceeds 1.5 s, and every tick spent in
\* Moving either abandons the command (target cleared, Autonomous queued) or
\* leaves the dog farther than 5 units from the target with the command clock
\* advanced by delta; so the dog leaves Moving at the first tick at which the
\* clock passes 7 s or the stall timer passes 1.5 s.
C1_CommandLiveness ==
    /\ [](\A d \in Dogs : commandTimer[d] <= 7 * TimeScale /\ 2 * stuckTimer[d] <= 3 * TimeScale)
    /\ [][\A d \in Dogs : MovingTick(d) =>
            \/ Abandoned(d)
            \/ /\ commandTimer'[d] = commandTimer[d] + delta
               /\ targetPosition'[d] = targetPosition[d]
               /\ DistSq(position[d], targetPosition[d]) >= (5 * PosScale) * (5 * PosScale)]_vars

\* a command that stayed out of reach has just expired
C1_Witness ==
    \E d \in Dogs :
        /\ verdict[d] # Null /\ verdict[d].expired /\ ~verdict[d].reached
        /\ dogStateNext[d] = "AUTONOMOUS" /\ commandTarget[d] = Null
        /\ targetPosition[d] = Null

\* the render delivers a new non-null command to dog d
CommandArrives(d) ==
    /\ pc = 0 /\ dogCommands'[d] # dogCommands[d] /\ dogCommands'[d] # Null

ClampedPoint(command) ==
    << clamp(command[1], -320 * PosScale, 320 * PosScale),
       clamp(command[2], -320 * PosScale, 320 * PosScale) >>

\* C2: a new non-null command preempts from any state. The effect that takes it
\* leaves the clamped command point as the target, queues Moving and resets
\* commandTimer, stuckTimer and lastCommandDistance; and whenever everything
\* queued has been rendered, a dog that holds a command is in Moving.
C2_CommandPreempts ==
    /\ [][\A d \in Dogs : CommandArrives(d) =>
            /\ targetPosition'[d] = ClampedPoint(dogCommands'[d])
            /\ commandTarget'[d] = ClampedPoint(dogCommands'[d])
            /\ dogStateNext'[d] = "MOVING"
            /\ commandTimer'[d] = 0 /\ stuckTimer'[d] = 0
            /\ lastCommandDistance'[d] = NoDist]_vars
    /\ [](\A d \in Dogs : ~Pending /\ commandTarget[d] # Null => dogState[d] = "MOVING")

\* a command has just preempted a dog seen as Autonomous, with a clamped target
C2_Witness ==
    /\ \E d \in Dogs :
        /\ dogState[d] = "AUTONOMOUS" /\ dogStateNext[d] = "MOVING"
        /\ targetPosition[d] # Null /\ commandTimer[d] = 0
    /\ \E d \in Dogs :
        /\ dogCommands[d] # Null
        /\ commandTarget[d] # Null
        /\ commandTarget[d] # << dogCommands[d][1], dogCommands[d][2] >>

\* C3: the command target of a dog is cleared only in a Moving tick of that dog
\* in which it is within 5 units of the target, or its command clock passes
\* 7 s, or its stall timer passes 1.5 s; and a render that delivers a null
\* command changes nothing of the dog's command: target, state and timers.
C3_OnlySelfClears ==
    [][\A d \in Dogs :
        /\ commandTarget[d] # Null /\ commandTarget'[d] = Null =>
             /\ MovingTick(d)
             /\ \/ DistSq(position[d], targetPosition[d]) < (5 * PosScale) * (5 * PosScale)
                \/ commandTimer[d] + delta > 7 * TimeScale
                \/ 2 * (stuckTimer[d] + delta) > 3 * TimeScale
        /\ pc = 0 /\ dogCommands[d] # Null /\ dogCommands'[d] = Null =>
             /\ commandTarget'[d] = commandTarget[d]
             /\ targetPosition'[d] = targetPosition[d]
             /\ dogStateNext'[d] = dogStateNext[d]
             /\ commandTimer'[d] = commandTimer[d]
             /\ stuckTimer'[d] = stuckTimer[d]
             /\ lastCommandDistance'[d] = lastCommandDistance[d]]_vars

\* a dog running to its command has been handed a null command
C3_Witness ==
    \E d \in Dogs :
        /\ dogCommands[d] = Null /\ commandTarget[d] # Null
        /\ dogState[d] = "MOVING" /\ targetPosition[d] = commandTarget[d]
        /\ commandTimer[d] > 0

\* C4: a dog is abandoned as stuck (neither at the target nor expired) only if
\* its distance to the target fell by less than 0.2 since the stall timer was
\* last 0, the start of the 1.5 s window.
C4_StuckOnlyWithoutProgress ==
    \A d \in Dogs :
        verdict[d] # Null /\ verdict[d].stuck /\ ~verdict[d].reached /\ ~verdict[d].expired
            => verdict[d].from - verdict[d].dist < PosScale \div 5

\* C5: a dog whose command target was within 5 units when the command was
\* delivered never outlives a tick in Moving: its command clock and stall
\* timer stay 0, and when it abandons, it is for having reached the target.
C5_NearCommandReached ==
    \A d \in Dogs :
        nearCommand[d] =>
            /\ commandTimer[d] = 0 /\ stuckTimer[d] = 0
            /\ verdict[d] # Null =>
                 verdict[d].reached /\ ~verdict[d].expired /\ ~verdict[d].stuck

\* C6: a dog in Idle that has received no command has no target.
C6_IdleHasNoTarget ==
    \A d \in Dogs :
        dogState[d] = "IDLE" /\ dogStateNext[d] = "IDLE" /\ commandTarget[d] = Null
            => targetPosition[d] = Null

\* the buckets, as the set of <<key, place in the bucket>> that hold sheep i
placesOf(i) ==
    { kn \in UNION { {<<k, n>> : n \in 1 .. Len(grid[k])} : k \in DOMAIN grid } :
        grid[kn[1]][kn[2]] = i }

\* C7: after a rebuild of the grid every sheep index is in exactly one place of
\* exactly one bucket, the bucket's key is the floor of (x + 350) / 20 and of
\* (z + 700) / 20 for the sheep's position at the rebuild, and the buckets
\* hold nothing else: no index is left over from an earlier tick.
C7_GridPartition ==
    hpc = "loop" =>
        /\ \A i \in Sheep :
            /\ Cardinality(placesOf(i)) = 1
            /\ \A kn \in placesOf(i) :
                /\ kn[1][1] * (20 * PosScale) <= tickStart[i].position[1] + 350 * PosScale
                /\ tickStart[i].position[1] + 350 * PosScale < (kn[1][1] + 1) * (20 * PosScale)
                /\ kn[1][2] * (20 * PosScale) <= tickStart[i].position[2] + 700 * PosScale
                /\ tickStart[i].position[2] + 700 * PosScale < (kn[1][2] + 1) * (20 * PosScale)
        /\ \A k \in DOMAIN grid : \A n \in 1 .. Len(grid[k]) : grid[k][n] \in Sheep

\* the grid has been rebuilt after a sheep moved to another cell, and two sheep
\* share a bucket
C7_Witness ==
    /\ hpc = "loop" /\ herdTicks >= 2
    /\ \E i \in Sheep : cellKey(tickStart[i].position) # prevCell[i]
    /\ \E k \in DOMAIN grid : Len(grid[k]) >= 2

\* the sheep other than i within radius r of i, by their positions now
bruteForce(i, r) ==
    { j \in Sheep \ {i} : DistSq(flockData[i].position, flockData[j].position) <= r * r }

neighborSet(i) == { getNeighbors(i)[n] : n \in 1 .. Len(getNeighbors(i)) }

\* C8: when getNeighbors(i) is evaluated for the sheep the loop is at, it does
\* not return sheep i, and for the radii 4.5, 12 and 20 the returned sheep
\* within the radius are exactly the sheep within the radius by brute force.
C8_NeighborCompleteness ==
    hpc = "loop" /\ loopIndex < NumSheep =>
        /\ loopIndex \notin neighborSet(loopIndex)
        /\ \A r \in {(9 * PosScale) \div 2, 12 * PosScale, 20 * PosScale} :
            { j \in neighborSet(loopIndex) :
                DistSq(flockData[loopIndex].position, flockData[j].position) <= r * r }
              = bruteForce(loopIndex, r)

\* C9: what a sheep reads of a neighbour in a tick is what the neighbour had
\* when the tick began: no position or velocity written in the tick is read.
C9_ReadSetFixed ==
    \A i \in Sheep : \A n \in 1 .. Len(neighborReads[i]) :
        /\ neighborReads[i][n].position = tickStart[neighborReads[i][n].idx].position
        /\ neighborReads[i][n].velocity # Null =>
               neighborReads[i][n].velocity = tickStart[neighborReads[i][n].idx].velocity

\* C10: in every tick the Herd callback reads dog positions that were emitted
\* in an earlier tick, and every Dog callback reads a herd centroid and stray
\* list that were emitted in an earlier tick.
C10_OneTickLag ==
    \A d \in Dogs :
        frameNo > 0 => sheepReadTick[d] < frameNo /\ dogReadTick[d] < frameNo

\* both simulations have read what the other emitted in the tick before
C10_Witness ==
    /\ pc = 0 /\ frameNo >= 2
    /\ \E d \in Dogs : sheepReadTick[d] = frameNo - 1 /\ dogReadTick[d] = frameNo - 1


\* the bound on the slope: a height difference of 10 per unit of distance, and
\* two model units for the rounding of the two heights
SlopeBound == 2 * 5

\* C15: terrain height has no seam at any zone boundary. For two points a
\* small step apart, on either side of the farm square's edge (at the midpoint
\* of a side or anywhere else along it), of the grassland radius, of a path's
\* blend width or of the fork path's quadrant limit, getTerrainHeight differs
\* by at most a constant times the step.
C15_NoSeam ==
    probe # Null => Abs(probe.heightTo - probe.heightFrom) <= SlopeBound * Eps + 2


\* sheep i has been through the loop at least once
Stepped(i) == stepLog[i].ticks > 0

\* C11: after any sequence of ticks, whatever the deltas and wherever the dogs
\* stand, every sheep's confidence is within [0, 1], also between the decay and
\* the recovery of a tick.
C11_ConfidenceBounds ==
    \A i \in Sheep :
        /\ 0 <= state[i].confidence /\ state[i].confidence <= ConfScale
        /\ Stepped(i) => /\ 0 <= stepLog[i].confidenceAtRoll
                         /\ stepLog[i].confidenceAtRoll <= ConfScale

\* a dog drove one sheep's confidence down to 0 and the recovery raised it,
\* while the recovery of another sheep stopped at 1
C11_Witness ==
    /\ \E i \in Sheep : /\ Stepped(i) /\ stepLog[i].inRange
                        /\ stepLog[i].confidenceAtRoll = 0
                        /\ 0 < state[i].confidence /\ state[i].confidence < ConfScale
    /\ \E i \in Sheep : /\ Stepped(i) /\ ~stepLog[i].inRange
                        /\ state[i].confidence = ConfScale

\* no dog stood within the flee threshold of sheep i when it was last updated:
\* 35 units, a quarter of that for a sheep that was feeding
NoDogNear(i) ==
    \A d \in Dogs :
        IF stepLog[i].before.feeding
        THEN DistSq(stepLog[i].from, dogs[d]) > (FLEE_RADIUS * FLEE_RADIUS) \div 16
        ELSE DistSq(stepLog[i].from, dogs[d]) >= FLEE_RADIUS * FLEE_RADIUS

\* C12: in a tick in which no dog is within a sheep's flee threshold, the
\* sheep's confidence does not decrease and it receives no evasion force; and a
\* sheep that never had a dog in range still has the confidence 1 it began with.
C12_CalmKeepsConfidence ==
    \A i \in Sheep :
        /\ Stepped(i) /\ NoDogNear(i) =>
                /\ state[i].confidence >= stepLog[i].before.confidence
                /\ stepLog[i].evasion = <<0, 0>>
                /\ ~stepLog[i].inRange
        /\ ~stepLog[i].disturbed => state[i].confidence = ConfScale

\* a sheep that a dog had scared is out of the dog's range and has regained
\* confidence, and a sheep no dog ever came near has been updated
C12_Witness ==
    /\ \E i \in Sheep : /\ Stepped(i) /\ NoDogNear(i) /\ stepLog[i].disturbed
                        /\ state[i].confidence > stepLog[i].before.confidence
    /\ \E i \in Sheep : Stepped(i) /\ ~stepLog[i].disturbed

\* sheep i went from Roaming to Feeding in its last update
BeganFeeding(i) == Stepped(i) /\ ~stepLog[i].before.feeding /\ state[i].feeding

\* C16: a sheep changes from Roaming to Feeding in a tick only if in that tick
\* its biome is lush grass, it is within its graze radius of its graze target,
\* its confidence is above 0.35 and the capacity gate admits it; the timer it is
\* given lies in [14, 34] seconds.
C16_FeedingEntry ==
    \A i \in Sheep :
        BeganFeeding(i) =>
            /\ stepLog[i].biome /\ stepLog[i].inRadius
            /\ Dist(stepLog[i].from, grazeTarget(i)) < grazeRadius(i)
            /\ 100 * stepLog[i].confidenceAtRoll > 35 * ConfScale
            /\ stepLog[i].gate < GrasslandCap \/ stepLog[i].already
            /\ 14 * TimeScale <= stepLog[i].given /\ stepLog[i].given <= 34 * TimeScale

\* a sheep has begun to feed with the longest timer
C16_Witness ==
    \E i \in Sheep : BeganFeeding(i) /\ stepLog[i].given > 14 * TimeScale

\* C17: when a sheep turns to Feeding its velocity becomes near zero. The
\* velocity stored at the end of the transition tick is the one scaled by 0.02
\* at the transition, its speed a small fraction (here a quarter, and 1 unit
\* per second for the forces of the tick) of the speed before the tick.
C17_FeedingStopsSheep ==
    \A i \in Sheep :
        Stepped(i) /\ stepLog[i].entered =>
            4 * Length(flockData[i].velocity) <= stepLog[i].speedBefore + 4 * VelScale

\* C18: a Feeding sheep's timer decreases by delta every tick and the sheep
\* reverts to Roaming when it reaches zero. At the end of every tick a Feeding
\* sheep has feedingTimer > 0, the timer is the one given at entry less the
\* delta accumulated since, and so a sheep is Roaming at the end of the first
\* tick at which that delta is at least the timer given.
C18_FeedingTimer ==
    \A i \in Sheep :
        /\ state[i].feeding =>
                /\ state[i].feedingTimer > 0
                /\ state[i].feedingTimer = stepLog[i].given - stepLog[i].fedFor
        /\ Stepped(i) /\ stepLog[i].fedFor >= stepLog[i].given => ~state[i].feeding

\* a feeding episode has run out, no dog having interfered
C18_Witness ==
    \E i \in Sheep :
        /\ Stepped(i) /\ stepLog[i].before.feeding /\ ~state[i].feeding
        /\ ~stepLog[i].inRange
        /\ stepLog[i].given > 0 /\ stepLog[i].fedFor >= stepLog[i].given
        /\ state[i].feedingTimer <= 0

\* C19: the pasture's capacity gate. A sheep not already in the grazing zone
\* gets the seek force only if the number of sheep resident in the zone is
\* below 120, and the count the gate compares against is that of the whole
\* flock, the same for every sheep of the tick whatever its index.
C19_CapacityGate ==
    \A i \in Sheep :
        Stepped(i) =>
            /\ stepLog[i].seeks /\ ~stepLog[i].already => stepLog[i].gate < GrasslandCap
            /\ \A j \in Sheep : stepLog[j].ticks = stepLog[i].ticks =>
                                    stepLog[j].gate = stepLog[i].gate


\* sheep i was classified as a stray at its last update: farther from its
\* graze target than its graze radius and 30 units
WasStray(i) == Dist(stepLog[i].from, grazeTarget(i)) > grazeRadius(i) + 30 * PosScale

\* the distance from the pasture center by which the strays are ranked
StrayDistance(i) == Dist(stepLog[i].from, TARGET_CENTER)

\* C14: each tick the flock emits a stray list of at most 3 positions, each the
\* position of a sheep classified as a stray in that tick, in the order of
\* descending distance from the pasture center, and no stray left out of the
\* list is farther from the pasture center than one in it.
C14_StrayList ==
    hpc = "idle" /\ herdTicks > 0 =>
        LET strays == { i \in Sheep : WasStray(i) }
            n == Len(strayTargetNext)
        IN  /\ n <= 3
            /\ n = Min(3, Cardinality(strays))
            /\ \E pick \in [1 .. n -> strays] :
                /\ \A a, b \in 1 .. n : a # b => pick[a] # pick[b]
                /\ \A a \in 1 .. n : strayTargetNext[a] = stepLog[pick[a]].landed
                /\ \A a, b \in 1 .. n :
                        a < b => StrayDistance(pick[a]) >= StrayDistance(pick[b])
                /\ \A j \in strays, a \in 1 .. n :
                        (\A b \in 1 .. n : pick[b] # j) =>
                            StrayDistance(j) <= StrayDistance(pick[a])

\* a tick has ended with more strays than the list takes, at different distances
C14_Witness ==
    /\ hpc = "idle" /\ herdTicks > 1
    /\ Cardinality({ i \in Sheep : WasStray(i) }) > 3
    /\ Len(strayTargetNext) = 3
    /\ \A i, j \in Sheep : i # j => StrayDistance(i) # StrayDistance(j)


\* C13: a sheep whose position or velocity has a non-finite component during
\* a tick is halted for the tick. No non-finite value is written back to a
\* sheep, none is filed in the spatial grid, and none is read into the herd
\* centroid or the stray list.
C13_NonFiniteHalts ==
    /\ nonFinite.sheep = {}
    /\ NaNCell \notin DOMAIN grid
    /\ ~nonFinite.sum /\ ~nonFinite.center /\ ~nonFinite.strays

\* strictly inside the farm square
InFarm(p) ==
    /\ Abs(p[1] - FARM_CENTER[1]) < FARM_HALF
    /\ Abs(p[2] - FARM_CENTER[2]) < FARM_HALF

\* within the corner cutout of one of the four corners, on both axes
InCorner(p) ==
    /\ Abs(Abs(p[1] - FARM_CENTER[1]) - FARM_HALF) < FARM_CORNER_OPEN
    /\ Abs(Abs(p[2] - FARM_CENTER[2]) - FARM_HALF) < FARM_CORNER_OPEN

\* the move from a to b, which leaves the square, crosses the fence in a gate
\* opening of the side it crosses or in a corner cutout
ThroughOpening(a, b) ==
    \/ InCorner(a) \/ InCorner(b)
    \/ /\ Abs(b[1] - FARM_CENTER[1]) >= FARM_HALF =>
            \E p \in {a, b} : Abs(p[2] - FARM_CENTER[2]) <= GATE_HALF
       /\ Abs(b[2] - FARM_CENTER[2]) >= FARM_HALF =>
            \E p \in {a, b} : Abs(p[1] - FARM_CENTER[1]) <= GATE_HALF

\* C20: farm-wall containment. A sheep that ends one tick inside the farm
\* square and the next tick outside it crossed the fence line inside a gate
\* opening or a corner cutout; anywhere else it is clamped back to the interior.
C20_WallContainment ==
    \A i \in Sheep :
        Stepped(i) /\ Finite(i) /\ InFarm(stepLog[i].from)
                   /\ ~InFarm(flockData[i].position) =>
            ThroughOpening(stepLog[i].from, flockData[i].position)


\* C21: while a dog has an active command (received and not yet reached,
\* expired or stuck) the target it steers toward is the clamped command point.
\* The autonomous branch never replaces or clears it, not even on a tick that
\* runs after the command was delivered and before the dog is seen as Moving.
C21_CommandHoldsTarget ==
    \A d \in Dogs : commandTarget[d] # Null => targetPosition[d] = commandTarget[d]


\* the step is dog d's frame callback taking the autonomous branch
AutonomousTick(d) == pc = 2 + d /\ ~(dogState[d] = "MOVING" /\ targetPosition[d] # Null)

\* the strays reported to the dogs, and those of them in dog d's sector
Reported == IF strayTarget = Null THEN << >> ELSE strayTarget

OwnStrays(d) == { k \in 1 .. Len(Reported) : InSector(d, Sub(Reported[k], herdCenter)) }

\* C22: in a tick where a dog runs its autonomous logic, if a reported stray
\* lies inside the dog's angular sector about the herd center, the dog's target
\* becomes the stray of that sector closest to the dog; a stray outside the
\* sector is never chosen as its target.
C22_StrayOfOwnSector ==
    [][\A d \in Dogs : AutonomousTick(d) =>
            /\ OwnStrays(d) # {} =>
                \E k \in OwnStrays(d) :
                    /\ targetPosition'[d] = Reported[k]
                    /\ \A j \in OwnStrays(d) :
                           DistSq(position[d], Reported[k]) <= DistSq(position[d], Reported[j])
            /\ \A k \in (1 .. Len(Reported)) \ OwnStrays(d) :
                    targetPosition'[d] = Reported[k] => targetPosition[d] = Reported[k]]_vars

\* a dog with two strays in its sector and one outside it has the closer of
\* the two as its target
C22_Witness ==
    \E d \in Dogs :
        /\ Cardinality(OwnStrays(d)) > 1
        /\ Cardinality(OwnStrays(d)) < Len(Reported)
        /\ dogReadTick[d] = herdTick /\ pc = 0
        /\ \E k \in OwnStrays(d) :
              /\ targetPosition[d] = Reported[k]
              /\ \A j \in OwnStrays(d) \ {k} :
                     DistSq(position[d], Reported[k]) < DistSq(position[d], Reported[j])


\* C23: a dog with no stray in its sector takes a patrol target only after more
\* than 5 s without an active command. The time-since-command counter is 0
\* after every tick spent in Moving, the abandoning one included, and until the
\* counter exceeds 5 s a dog without a command pursues no target other than a
\* stray currently in its sector.
C23_PatrolAfterDelay ==
    /\ [][\A d \in Dogs : MovingTick(d) => timeSinceCommand'[d] = 0]_vars
    /\ [][\A d \in Dogs :
            AutonomousTick(d) /\ commandTarget[d] = Null
                              /\ timeSinceCommand'[d] <= 5 * TimeScale =>
                \/ targetPosition'[d] = Null
                \/ \E k \in OwnStrays(d) : targetPosition'[d] = Reported[k]]_vars


\* C24: a dog's horizontal position is clamped to +/-320. After every tick its
\* x and z lie in [-320, 320], whether it follows a command, intercepts a stray
\* or patrols.
C24_DogWithinBounds ==
    \A d \in Dogs :
        /\ Abs(position[d][1]) <= 320 * PosScale
        /\ Abs(position[d][2]) <= 320 * PosScale


\* C25: over a tick of length delta a sheep with dogs within flee radius has
\* its confidence, as the avoidance pass leaves it, lowered by 1.5 * delta and
\* floored at 0, however many the dogs; a sheep with no dog in range ends the
\* tick with its confidence raised by 0.1 * delta and capped at 1.
C25_ConfidenceRate ==
    \A i \in Sheep :
        Stepped(i) =>
            IF stepLog[i].inRange
            THEN stepLog[i].confidenceAtRoll
                    = Max(0, stepLog[i].before.confidence - 15 * stepLog[i].delta)
            ELSE state[i].confidence
                    = Min(ConfScale, stepLog[i].before.confidence + stepLog[i].delta)


\* a dog of the array the tick read stood within a quarter of the flee radius
DogClose(i) ==
    \E d \in Dogs :
        DistSq(stepLog[i].from, stepLog[i].dogsRead[d]) <= (FLEE_RADIUS * FLEE_RADIUS) \div 16

\* C27: at the end of every tick a sheep that had a dog within a quarter of
\* the flee radius (8.75 units) during that tick is not Feeding.
C27_CloseDogEndsFeeding ==
    \A i \in Sheep : Stepped(i) /\ Finite(i) /\ DogClose(i) => ~state[i].feeding


\* what the avoidance pass makes of sheep i when the dogs prop holds dogArray
Reaction(dogArray, i) ==
    dogAvoidance(dogArray, i, 0,
                 [acc |-> <<0, 0>>, confidence |-> state[i].confidence,
                  feeding |-> state[i].feeding, inRange |-> FALSE])

\* C28: the reaction of the sheep the loop is about to process depends on the
\* set of dog positions only: every permutation of the dog array leaves it
\* with the same confidence, the same feeding flag and the same evasion or
\* none.
C28_DogOrderIrrelevant ==
    hpc = "loop" /\ loopIndex \in Sheep /\ Finite(loopIndex) =>
        \A p \in Permutations(Dogs) :
            LET permuted == Reaction([d \in Dogs |-> dogs[p[d]]], loopIndex)
                asGiven == Reaction(dogs, loopIndex)
            IN  /\ permuted.confidence = asGiven.confidence
                /\ permuted.feeding = asGiven.feeding
                /\ permuted.inRange = asGiven.inRange


\* C29: after every tick the stored speed of each sheep is at most its
\* personality's max speed, beyond the world bounds and at a farm wall too
\* (to one step of the velocity grid, 0.05 units a second, for the rounding
\* of setLength).
C29_SpeedWithinMax ==
    \A i \in Sheep :
        Stepped(i) /\ Finite(i) =>
            LengthSq(flockData[i].velocity) <= (maxSpeed(i) + 1) * (maxSpeed(i) + 1)


\* C26: in a tick a sheep's height moves a quarter of the difference to the
\* terrain height plus clearance, whether the ground under it is above or
\* below it (to one step of the grid); it never jumps the whole difference.
C26_HeightEased ==
    \A i \in Sheep :
        Stepped(i) /\ Finite(i) =>
            LET desiredY == stepLog[i].groundHeight + PosScale \div 5
            IN  4 * Abs(posY[i] - stepLog[i].yBefore) <= Abs(desiredY - stepLog[i].yBefore) + 4


\* the render that is taking place hands dog d a command object it has not
\* had before: the one of the latest click
NewCommand(d) ==
    /\ dogCommands'[d] # Null /\ dogCommands'[d][3] = clicks
    /\ dogCommands[d] = Null \/ dogCommands[d][3] < clicks

\* C30: a command is consumed at most once and Idle is never re-entered.
\* Moving is queued for a dog only by the render that hands it a new command
\* object, and rendered only when it was queued, so a dog that has left Moving
\* stays out of it while the old command is passed to it again and again; and
\* no dog that has left Idle is Idle again.
C30_CommandConsumedOnce ==
    [][\A d \in Dogs :
            /\ dogStateNext[d] # "MOVING" /\ dogStateNext'[d] = "MOVING" => NewCommand(d)
            /\ dogState[d] # "MOVING" /\ dogState'[d] = "MOVING" => dogStateNext[d] = "MOVING"
            /\ dogState[d] # "IDLE" => dogState'[d] # "IDLE"
            /\ dogStateNext[d] # "IDLE" => dogStateNext'[d] # "IDLE"]_vars

\* a dog gave its command up, still has the old command object as its prop and
\* has been rendered and run in the autonomous branch since
C30_Witness ==
    \E d \in Dogs :
        /\ verdict[d] # Null /\ dogCommands[d] # Null
        /\ dogState[d] = "AUTONOMOUS" /\ dogStateNext[d] = "AUTONOMOUS"
        /\ timeSinceCommand[d] >= 2 * SlowDelta
        /\ pc = 0 /\ ~Pending

=============================================================================
